---- MODULE Spec2Model ----
(***************************************************************************)
(* DevHub Explorer (src/src/App.tsx): the search-query builder, the        *)
(* result fetcher with its in-flight requests, and the React state that    *)
(* the handlers of the App component change.                               *)
(*                                                                         *)
(* Representation.                                                         *)
(*  - A JavaScript string that the code builds by concatenation is kept    *)
(*    as the sequence of the segments that were concatenated ("a rope");   *)
(*    Str(rope) is the text itself.                                        *)
(*  - A value that may be null/undefined is a sequence of length 0 or 1:   *)
(*    <<>> is null/undefined, <<v>> is the value v.                        *)
(*  - Dates are whole days since 1970-01-01; the local time zone is UTC.   *)
(***************************************************************************)
EXTENDS Integers, Sequences, FiniteSets, TLC

(***************************************************************************)
(* Bounds of the model.                                                    *)
(***************************************************************************)
MaxPage == 2
MaxInflight == 2
MaxOutstanding == 1
MaxBookmarks == 2
MaxClick == 1
MaxSelected == 2
TrendingTotal == 21
RecentTotal == 22
SearchTotal == 3

(***************************************************************************)
(* Program constants.                                                      *)
(***************************************************************************)
PerPage == 20
TrendingDays == 10
RecentDays == 7
DefaultDays == 30
HighStars == 1000
MediumStars == 100
MaintainedDays == 90
\* 5 * 60 * 1000 ms; the clock of AuthProvider counts minutes.
USAGE_TIME_LIMIT == 5
\* The last minute of the clock.
MaxClock == 8
\* The clipboard writes and indicator resets that can be pending together.
MaxCopies == 2

VARIABLES repositories, page, loading, error, activeTab, searchQuery,
          filters, bookmarks, selectedRepos, inflight, query, today,
          download,
          user, authLoading, sessionStartTime, showAuthPrompt, clock, timer,
          copiedRepo, clipboardWrites, resetTimers

vars == <<repositories, page, loading, error, activeTab, searchQuery,
          filters, bookmarks, selectedRepos, inflight, query, today,
          download,
          user, authLoading, sessionStartTime, showAuthPrompt, clock, timer,
          copiedRepo, clipboardWrites, resetTimers>>

\* The copied indicator of App, the clipboard writes not yet settled (the id
\* each was called with) and the number of indicator resets armed.
copyVars == <<copiedRepo, clipboardWrites, resetTimers>>

\* The state of App, the download included.
appVars == <<repositories, page, loading, error, activeTab, searchQuery,
             filters, bookmarks, selectedRepos, inflight, query, today,
             download, copyVars>>

\* The state of AuthProvider, with the clock and the timeout it has armed.
authVars == <<user, authLoading, sessionStartTime, showAuthPrompt, clock, timer>>

\* What the handlers of the result list and the fetches never write: the
\* file handed to the browser as a download, the copied indicator, and the
\* state of AuthProvider.
sideVars == <<download, copyVars, authVars>>

Null == <<>>

Some(v) == <<v>>

(***************************************************************************)
(* Strings.                                                                *)
(***************************************************************************)
RECURSIVE Str(_)
Str(rope) == IF rope = <<>> THEN "" ELSE Head(rope) \o Str(Tail(rope))

Pad(n, width) ==
  LET s == ToString(n)
  IN  IF Len(s) >= width THEN s
      ELSE IF Len(s) = width - 1 THEN "0" \o s
      ELSE IF Len(s) = width - 2 THEN "00" \o s
      ELSE "000" \o s

\* The proleptic Gregorian calendar date of the day number `day`.
CivilOfMonth(era, yoe, doy, mp) ==
  [y |-> yoe + era * 400 + (IF mp < 10 THEN 0 ELSE 1),
   m |-> IF mp < 10 THEN mp + 3 ELSE mp - 9,
   d |-> doy - ((153 * mp + 2) \div 5) + 1]

CivilOfDayOfYear(era, yoe, doy) ==
  CivilOfMonth(era, yoe, doy, (5 * doy + 2) \div 153)

CivilOfYearOfEra(era, doe, yoe) ==
  CivilOfDayOfYear(era, yoe, doe - (365 * yoe + (yoe \div 4) - (yoe \div 100)))

CivilOfDayOfEra(era, doe) ==
  CivilOfYearOfEra(era, doe,
    (doe - (doe \div 1460) + (doe \div 36524) - (doe \div 146096)) \div 365)

CivilOfShifted(z) == CivilOfDayOfEra(z \div 146097, z - (z \div 146097) * 146097)

Civil(day) == CivilOfShifted(day + 719468)

ISODateOf(c) == Pad(c.y, 4) \o "-" \o Pad(c.m, 2) \o "-" \o Pad(c.d, 2)

\* Date.prototype.toISOString().split('T')[0] of the day number `day`:
\* the calendar date as YYYY-MM-DD.
ISODate(day) == ISODateOf(Civil(day))

localeDateOf(c) == ToString(c.m) \o "/" \o ToString(c.d) \o "/" \o ToString(c.y)

\* Date.prototype.toLocaleDateString() in the en-US locale: M/D/YYYY.
toLocaleDateString(day) == localeDateOf(Civil(day))

getDateFromDaysAgo(days, now) == ISODate(now - days)

\* String.prototype.trim on the free texts of the model.
Trim(s) == IF s \in {" ", "  "} THEN "" ELSE s

(***************************************************************************)
(* Search filters.                                                         *)
(***************************************************************************)
FilterKeys == {"language", "stars", "forks", "updated", "topics", "country"}

StarTiers == {"any", "100+", "1000+", "10000+"}

ForkTiers == {"any", "10+", "100+", "1000+"}

UpdatedTiers == {"any", "day", "week", "month"}

DefaultFilters ==
  [language |-> "", stars |-> "any", forks |-> "any", updated |-> "any",
   topics |-> FALSE, country |-> ""]

countryKeywords ==
  ("US" :> "USA OR United States") @@
  ("UK" :> "UK OR United Kingdom OR Britain") @@
  ("CA" :> "Canada") @@
  ("DE" :> "Germany OR Deutschland") @@
  ("FR" :> "France") @@
  ("JP" :> "Japan OR U+65E5U+672C") @@
  ("CN" :> "China OR U+4E2DU+56FD") @@
  ("IN" :> "India") @@
  ("BR" :> "Brazil") @@
  ("AU" :> "Australia") @@
  ("RU" :> "Russia") @@
  ("ES" :> "Spain") @@
  ("IT" :> "Italy") @@
  ("KR" :> "Korea OR U+D55CU+AD6D") @@
  ("NL" :> "Netherlands") @@
  ("SE" :> "Sweden") @@
  ("NO" :> "Norway") @@
  ("DK" :> "Denmark") @@
  ("FI" :> "Finland") @@
  ("CH" :> "Switzerland") @@
  ("AT" :> "Austria") @@
  ("BE" :> "Belgium") @@
  ("IE" :> "Ireland") @@
  ("PL" :> "Poland") @@
  ("CZ" :> "Czech Republic") @@
  ("GR" :> "Greece") @@
  ("PT" :> "Portugal") @@
  ("MX" :> "Mexico") @@
  ("AR" :> "Argentina") @@
  ("CL" :> "Chile") @@
  ("CO" :> "Colombia") @@
  ("PE" :> "Peru") @@
  ("ZA" :> "South Africa") @@
  ("EG" :> "Egypt") @@
  ("NG" :> "Nigeria") @@
  ("KE" :> "Kenya") @@
  ("TH" :> "Thailand") @@
  ("VN" :> "Vietnam") @@
  ("PH" :> "Philippines") @@
  ("MY" :> "Malaysia") @@
  ("SG" :> "Singapore") @@
  ("ID" :> "Indonesia") @@
  ("NZ" :> "New Zealand") @@
  ("IL" :> "Israel") @@
  ("AE" :> "UAE OR United Arab Emirates") @@
  ("TR" :> "Turkey") @@
  ("SA" :> "Saudi Arabia")

\* Variant: a code without an entry is used as the keyword itself.
keywordsOfOrCode(country) ==
  IF country \in DOMAIN countryKeywords THEN Some(countryKeywords[country])
  ELSE Some(country)

\* countryKeywords[filters.country]: the keywords, or undefined.
keywordsOf(country) ==
  IF country \in DOMAIN countryKeywords THEN Some(countryKeywords[country])
  ELSE Null

\* Variant: the tiers 1000+ and 10000+ are confused.
minStarsConfused(f) ==
  IF f.stars = "100+" THEN 100 ELSE IF f.stars = "1000+" THEN 10000 ELSE 1000

minStars(f) ==
  IF f.stars = "100+" THEN 100 ELSE IF f.stars = "1000+" THEN 1000 ELSE 10000

minForks(f) ==
  IF f.forks = "10+" THEN 10 ELSE IF f.forks = "100+" THEN 100 ELSE 1000

pushedSince(f, now) ==
  IF f.updated = "day" THEN getDateFromDaysAgo(1, now)
  ELSE IF f.updated = "week" THEN getDateFromDaysAgo(7, now)
  ELSE getDateFromDaysAgo(30, now)

languageToken(f) ==
  IF f.language # "" THEN <<" ", "language:", f.language>> ELSE <<>>

starsToken(f) ==
  IF f.stars # "any" THEN <<" ", "stars:>", ToString(minStars(f))>> ELSE <<>>

forksToken(f) ==
  IF f.forks # "any" THEN <<" ", "forks:>", ToString(minForks(f))>> ELSE <<>>

updatedToken(f, now) ==
  IF f.updated # "any" THEN <<" ", "pushed:>", pushedSince(f, now)>> ELSE <<>>

topicsToken(f) ==
  IF f.topics THEN <<" ", "topics:>0">> ELSE <<>>

countryToken(f) ==
  IF f.country # "" /\ keywordsOf(f.country) # Null
  THEN <<" ", keywordsOf(f.country)[1]>>
  ELSE <<>>

\* Variant: the forks filter is handled before the stars filter.
queryBeforeReturnForksFirst(text, f, now) ==
  (IF text = "" THEN <<>> ELSE <<text>>)
    \o languageToken(f) \o forksToken(f) \o starsToken(f)
    \o updatedToken(f, now) \o topicsToken(f) \o countryToken(f)

\* The value of `query` just before the return statement.
queryBeforeReturn(text, f, now) ==
  (IF text = "" THEN <<>> ELSE <<text>>)
    \o languageToken(f) \o starsToken(f) \o forksToken(f)
    \o updatedToken(f, now) \o topicsToken(f) \o countryToken(f)

\* Variant: the default window is that of the trending tab.
defaultQueryTrendingWindow(now) ==
  <<"created:>", getDateFromDaysAgo(TrendingDays, now)>>

defaultQuery(now) == <<"created:>", getDateFromDaysAgo(DefaultDays, now)>>

buildSearchQuery(text, f, now) ==
  LET q == queryBeforeReturn(text, f, now)
  IN  IF Str(q) # "" THEN q ELSE defaultQuery(now)

(***************************************************************************)
(* The search endpoint (environment).  The index holds TrendingTotal       *)
(* repositories for the trending query, RecentTotal for the recent query   *)
(* and SearchTotal for any search query; it serves them per_page at a      *)
(* time.  One request always gets the same page of the same listing, what  *)
(* varies is whether the request succeeds.                                 *)
(***************************************************************************)
Repo(id) == [id |-> id]

Range(from, to) == [i \in 1..(IF to >= from THEN to - from + 1 ELSE 0) |-> from + i - 1]

Min(a, b) == IF a <= b THEN a ELSE b

Listing(req) ==
  IF req.sort = "updated" THEN [base |-> 100, total |-> RecentTotal]
  ELSE IF req.q = "created:>" \o getDateFromDaysAgo(TrendingDays, today)
       THEN [base |-> 0, total |-> TrendingTotal]
       ELSE [base |-> 200, total |-> SearchTotal]

Catalogue(req) ==
  LET l     == Listing(req)
      first == (req.page - 1) * req.per_page + 1
      last  == Min(req.page * req.per_page, l.total)
      ids   == Range(l.base + first, l.base + last)
  IN  [i \in DOMAIN ids |-> Repo(ids[i])]

\* What a fetch can settle with: a transport failure, a non-success status,
\* or a 200 whose JSON body has the fields `message` and `items` or not.
Responses(req) ==
  { [kind |-> "network", ok |-> FALSE, status |-> 0, message |-> Null, items |-> Null],
    [kind |-> "http", ok |-> FALSE, status |-> 403, message |-> Null, items |-> Null],
    [kind |-> "http", ok |-> TRUE, status |-> 200, message |-> Null,
     items |-> Some(Catalogue(req))],
    [kind |-> "http", ok |-> TRUE, status |-> 200, message |-> Null, items |-> Null],
    [kind |-> "http", ok |-> TRUE, status |-> 200,
     message |-> Some("API rate limit exceeded"), items |-> Some(Catalogue(req))] }

(***************************************************************************)
(* fetchRepositories.  `ui` is the part of the component state that the    *)
(* fetch dispatch writes: repositories, loading, error, the requests in    *)
(* flight, in the order they were issued.                                  *)
(***************************************************************************)
Request(pageNum, q, sort) ==
  [q |-> q, sort |-> sort, order |-> "desc", page |-> pageNum, per_page |-> PerPage]

CurrentUi ==
  [repositories |-> repositories, loading |-> loading, error |-> error,
   inflight |-> inflight]

\* Up to the first await: setLoading(true), setError(null), fetch(...).
fetchRepositories(ui, pageNum, q, sort) ==
  [ui EXCEPT !.loading = TRUE, !.error = Null,
             !.inflight = Append(@, Request(pageNum, q, sort))]

fetchTrendingRepositories(ui, pageNum) ==
  fetchRepositories(ui, pageNum,
                    "created:>" \o getDateFromDaysAgo(TrendingDays, today), "stars")

\* Variant: the recent tab of the first version of the component
\* (created in the last day).
fetchRecentRepositoriesCreatedLastDay(ui, pageNum) ==
  fetchRepositories(ui, pageNum,
                    "created:>" \o getDateFromDaysAgo(1, today), "updated")

fetchRecentRepositories(ui, pageNum) ==
  fetchRepositories(ui, pageNum,
                    "pushed:>" \o getDateFromDaysAgo(RecentDays, today), "updated")

searchRepositories(ui, pageNum, text, f) ==
  LET q == buildSearchQuery(text, f, today)
  IN  fetchRepositories(ui, pageNum, Str(q), "stars")

\* The message of the Error that the try block throws for this response,
\* or Null when it throws nothing.
thrown(resp) ==
  IF resp.kind = "network" THEN Some("Failed to fetch")
  ELSE IF ~resp.ok THEN Some("GitHub API Error: " \o ToString(resp.status))
  ELSE IF resp.message # Null /\ resp.message[1] # "" THEN Some(resp.message[1])
  ELSE Null

\* data.items || []
itemsOrEmpty(resp) == IF resp.items # Null THEN resp.items[1] ELSE <<>>

\* Variant: a response is applied only when no request was issued after
\* its own.
appliedItemsIfNewest(shown, reqs, i, resp) ==
  IF i = Len(reqs) THEN itemsOrEmpty(resp) ELSE shown

\* Variant: the items are appended to the list shown.
appliedItemsAppended(shown, reqs, i, resp) == shown \o itemsOrEmpty(resp)

\* setRepositories(data.items || []) of the request that settles, given the
\* list shown now and the requests in flight.
appliedItems(shown, reqs, i, resp) == itemsOrEmpty(resp)

RemoveAt(s, i) == SubSeq(s, 1, i - 1) \o SubSeq(s, i + 1, Len(s))

\* Variant: setLoading(false) at the end of try, with no finally.
settleWithoutFinally(ui, i, resp) ==
  LET err == thrown(resp)
  IN  [ui EXCEPT
         !.repositories = IF err = Null
                          THEN appliedItems(ui.repositories, ui.inflight, i, resp)
                          ELSE @,
         !.error = IF err = Null THEN @ ELSE err,
         !.loading = IF err = Null THEN FALSE ELSE @,
         !.inflight = RemoveAt(@, i)]

\* After the awaits: the rest of try, catch and finally.
settle(ui, i, resp) ==
  LET err == thrown(resp)
  IN  [ui EXCEPT
         !.repositories = IF err = Null
                          THEN appliedItems(ui.repositories, ui.inflight, i, resp)
                          ELSE @,
         !.error = IF err = Null THEN @ ELSE err,
         !.loading = FALSE,
         !.inflight = RemoveAt(@, i)]

(***************************************************************************)
(* The fetch dispatch effect and the renders that trigger it.              *)
(***************************************************************************)
Deps(p, tab, text, f, bm) ==
  [page |-> p, activeTab |-> tab, searchQuery |-> text, filters |-> f, bookmarks |-> bm]

CurrentDeps == Deps(page, activeTab, searchQuery, filters, bookmarks)

\* Variant: the newest bookmark comes first.
bookmarkedReposNewestFirst(bm) ==
  [i \in DOMAIN bm |-> bm[Len(bm) + 1 - i].repository]

\* bookmarks.map(b => b.repository)
bookmarkedRepos(bm) == [i \in DOMAIN bm |-> bm[i].repository]

fetchDispatch(ui, d) ==
  IF d.activeTab = "trending" THEN fetchTrendingRepositories(ui, d.page)
  ELSE IF d.activeTab = "recent" THEN fetchRecentRepositories(ui, d.page)
  ELSE IF d.activeTab = "search"
       THEN searchRepositories(ui, d.page, d.searchQuery, d.filters)
  ELSE IF d.activeTab = "bookmarks"
       THEN [ui EXCEPT !.repositories = bookmarkedRepos(d.bookmarks)]
  ELSE ui

\* React runs the effect after a render in which a dependency changed.
RECURSIVE runEffects(_, _, _)
runEffects(ui, prev, renders) ==
  IF renders = <<>> THEN ui
  ELSE LET d == Head(renders)
       IN  runEffects(IF d # prev THEN fetchDispatch(ui, d) ELSE ui, d, Tail(renders))

\* The state updates made in one React event handler are batched into one
\* render.
Batched(d) == <<d>>

\* Commit the renders of one event: the last render's state, the effects'
\* writes, and the selection.
Commit(renders, sel) ==
  LET d  == renders[Len(renders)]
      ui == runEffects(CurrentUi, CurrentDeps, renders)
  IN  /\ page' = d.page
      /\ activeTab' = d.activeTab
      /\ searchQuery' = d.searchQuery
      /\ filters' = d.filters
      /\ bookmarks' = d.bookmarks
      /\ selectedRepos' = sel
      /\ repositories' = ui.repositories
      /\ loading' = ui.loading
      /\ error' = ui.error
      /\ inflight' = ui.inflight
      /\ UNCHANGED <<query, today, sideVars>>

(***************************************************************************)
(* What the user can do (the bounded part of it).                          *)
(***************************************************************************)
Tabs == {"trending", "recent", "search", "bookmarks"}

Days == {19783}

Texts == {"", "react"}

\* The options of the filter panel's selects.  There is no control for
\* `topics`.
FilterOptions ==
  [language |-> {"", "Rust"},
   stars    |-> {"any", "1000+"},
   forks    |-> {"any"},
   updated  |-> {"any"},
   topics   |-> {FALSE},
   country  |-> {""}]

\* The cards the user clicks on: the first MaxClick of the list shown.
Clickable(repos) == {repos[i] : i \in 1..Min(MaxClick, Len(repos))}

\* {!loading && repositories.length > 0 && (...pagination...)}
PaginationShown == ~loading /\ repositories # <<>>

(***************************************************************************)
(* Event handlers.  Each gives the renders its state updates cause.        *)
(***************************************************************************)
\* Variant: the page is decremented without the test.
handlePrevPageRendersUnguarded(d) == Batched([d EXCEPT !.page = @ - 1])

handlePrevPageRenders(d) ==
  IF d.page > 1 THEN Batched([d EXCEPT !.page = @ - 1]) ELSE Batched(d)

handleNextPageRenders(d) == Batched([d EXCEPT !.page = @ + 1])

\* Variant: setActiveTab and setPage are rendered one after the other.
handleTabChangeRendersUnbatched(d, tab) ==
  <<[d EXCEPT !.activeTab = tab], [d EXCEPT !.activeTab = tab, !.page = 1]>>

handleTabChangeRenders(d, tab) == Batched([d EXCEPT !.activeTab = tab, !.page = 1])

handleSearchRenders(d) ==
  IF \/ Trim(d.searchQuery) # ""
     \/ d.filters.language # ""
     \/ d.filters.stars # "any"
     \/ d.filters.forks # "any"
     \/ d.filters.updated # "any"
     \/ d.filters.country # ""
  THEN Batched([d EXCEPT !.activeTab = "search", !.page = 1])
  ELSE Batched(d)

handleFilterChangeRenders(d, key, value) ==
  Batched([d EXCEPT !.filters = [@ EXCEPT ![key] = value]])

setSearchQueryRenders(d, text) == Batched([d EXCEPT !.searchQuery = text])

\* Variant: a new bookmark is put in front of the list.
toggledBookmarksPrepending(bm, repo) ==
  IF \E i \in DOMAIN bm : bm[i].repository.id = repo.id
  THEN LET keep(b) == b.repository.id # repo.id IN SelectSeq(bm, keep)
  ELSE <<[repository |-> repo, bookmarkedAt |-> today, notes |-> ""]>> \o bm

toggledBookmarks(bm, repo) ==
  IF \E i \in DOMAIN bm : bm[i].repository.id = repo.id
  THEN LET keep(b) == b.repository.id # repo.id IN SelectSeq(bm, keep)
  ELSE Append(bm, [repository |-> repo, bookmarkedAt |-> today, notes |-> ""])

handlePrevPage ==
  /\ PaginationShown
  /\ page # 1
  /\ Commit(handlePrevPageRenders(CurrentDeps), selectedRepos)

handleNextPage ==
  /\ PaginationShown
  /\ page < MaxPage
  /\ Commit(handleNextPageRenders(CurrentDeps), selectedRepos)

\* Variant: a tab change keeps the selection.
selectionKeptOnTabChange(sel) == sel

\* setSelectedRepos([]) of handleTabChange.
selectionAfterTabChange(sel) == <<>>

handleTabChange(tab) ==
  /\ tab \in Tabs
  /\ Commit(handleTabChangeRenders(CurrentDeps, tab),
            selectionAfterTabChange(selectedRepos))

handleSearch ==
  /\ activeTab = "search"
  /\ Commit(handleSearchRenders(CurrentDeps), selectedRepos)

handleFilterChange(key, value) ==
  /\ activeTab = "search"
  /\ value # filters[key]
  /\ Commit(handleFilterChangeRenders(CurrentDeps, key, value), selectedRepos)

setSearchQuery(text) ==
  /\ activeTab = "search"
  /\ text # searchQuery
  /\ Commit(setSearchQueryRenders(CurrentDeps, text), selectedRepos)

toggleBookmarkRenders(d, repo) ==
  Batched([d EXCEPT !.bookmarks = toggledBookmarks(@, repo)])

toggleBookmark(repo) ==
  /\ Len(toggledBookmarks(bookmarks, repo)) <= MaxBookmarks
  /\ Commit(toggleBookmarkRenders(CurrentDeps, repo), selectedRepos)

\* Variant: the record is added without looking for it.
toggledSelectionAppending(sel, repo) == Append(sel, repo)

toggledSelection(sel, repo) ==
  IF \E i \in DOMAIN sel : sel[i].id = repo.id
  THEN LET keep(r) == r.id # repo.id IN SelectSeq(sel, keep)
  ELSE Append(sel, repo)

\* The checkbox of a card.  The selection is no dependency of the fetch
\* dispatch.
toggleRepoSelection(repo) ==
  /\ Len(toggledSelection(selectedRepos, repo)) <= MaxSelected
  /\ Commit(Batched(CurrentDeps), toggledSelection(selectedRepos, repo))

\* The Clear button, shown while something is selected.
clearSelection ==
  /\ selectedRepos # <<>>
  /\ Commit(Batched(CurrentDeps), <<>>)

\* A fetch in flight settles with `resp` and fetchRepositories runs on.
completeFetch(i, resp) ==
  /\ i \in DOMAIN inflight
  /\ repositories' = settle(CurrentUi, i, resp).repositories
  /\ loading' = settle(CurrentUi, i, resp).loading
  /\ error' = settle(CurrentUi, i, resp).error
  /\ inflight' = settle(CurrentUi, i, resp).inflight
  /\ UNCHANGED <<page, activeTab, searchQuery, filters, bookmarks,
                 selectedRepos, query, today, sideVars>>

(***************************************************************************)
(* Export.  A text is a rope in which a double quote, a backslash and a    *)
(* line feed are always segments of their own.  A JavaScript value is a    *)
(* tagged record; an object is the sequence of its members, in insertion   *)
(* order.  A document is the sequence of the pieces JSON.stringify writes. *)
(***************************************************************************)
JNull == [t |-> "null", v |-> <<>>]

JStr(rope) == [t |-> "str", v |-> rope]

JNum(n) == [t |-> "num", v |-> n]

JArr(elements) == [t |-> "arr", v |-> elements]

JObj(members) == [t |-> "obj", v |-> members]

Member(key, value) == [k |-> key, val |-> value]

\* A string | null field of a record as a JavaScript value.
JNullable(field) == IF field = Null THEN JNull ELSE JStr(field[1])

Digit == <<"0", "1", "2", "3", "4", "5", "6", "7", "8", "9">>

RECURSIVE digits(_)
digits(n) ==
  IF n < 10 THEN <<Digit[n + 1]>> ELSE Append(digits(n \div 10), Digit[(n % 10) + 1])

RECURSIVE Spaces(_)
Spaces(n) == IF n = 0 THEN "" ELSE " " \o Spaces(n - 1)

\* The line break and indentation of JSON.stringify(value, null, 2).
Indent(level) == "\n" \o Spaces(2 * level)

RECURSIVE escaped(_)
escaped(rope) ==
  IF rope = <<>> THEN <<>>
  ELSE LET c == Head(rope)
       IN  (IF c = "\"" THEN <<"\\", "\"">>
            ELSE IF c = "\\" THEN <<"\\", "\\">>
            ELSE IF c = "\n" THEN <<"\\", "n">>
            ELSE <<c>>) \o escaped(Tail(rope))

\* Variant: the text is written between the quotes as it is.
quotedAsItIs(rope) == <<"\"">> \o rope \o <<"\"">>

quoted(rope) == <<"\"">> \o escaped(rope) \o <<"\"">>

RECURSIVE stringify(_, _), stringifyElements(_, _, _), stringifyMembers(_, _, _)
stringifyElements(elements, k, level) ==
  IF k > Len(elements) THEN <<>>
  ELSE (IF k > 1 THEN <<",">> ELSE <<>>)
       \o <<Indent(level)>> \o stringify(elements[k], level)
       \o stringifyElements(elements, k + 1, level)

stringifyMembers(members, k, level) ==
  IF k > Len(members) THEN <<>>
  ELSE (IF k > 1 THEN <<",">> ELSE <<>>)
       \o <<Indent(level)>> \o quoted(<<members[k].k>>) \o <<":", " ">>
       \o stringify(members[k].val, level)
       \o stringifyMembers(members, k + 1, level)

\* JSON.stringify(value, null, 2), for a value at nesting depth `level`.
stringify(value, level) ==
  IF value.t = "null" THEN <<"null">>
  ELSE IF value.t = "str" THEN quoted(value.v)
  ELSE IF value.t = "num" THEN digits(value.v)
  ELSE IF value.t = "arr"
       THEN IF value.v = <<>> THEN <<"[", "]">>
            ELSE <<"[">> \o stringifyElements(value.v, 1, level + 1)
                 \o <<Indent(level), "]">>
  ELSE IF value.v = <<>> THEN <<"{", "}">>
       ELSE <<"{">> \o stringifyMembers(value.v, 1, level + 1)
            \o <<Indent(level), "}">>

\* new Date().toISOString(), the clock being at midnight.
nowISOString(now) == ISODate(now) \o "T00:00:00.000Z"

HoursPerDay == 24

\* A timestamp of the API ('2024-02-29T13:00:00Z'), the time being kept in
\* whole hours since 1970-01-01T00:00Z.
ISOInstant(hours) ==
  ISODate(hours \div HoursPerDay) \o "T" \o Pad(hours % HoursPerDay, 2) \o ":00:00Z"

topicValues(topics) == JArr([i \in DOMAIN topics |-> JStr(topics[i])])

\* The projection of one record in exportToJSON.
projected(repo) ==
  JObj(<<Member("name", JStr(repo.full_name)),
         Member("description", JNullable(repo.description)),
         Member("language", JNullable(repo.language)),
         Member("stars", JNum(repo.stargazers_count)),
         Member("forks", JNum(repo.forks_count)),
         Member("watchers", JNum(repo.watchers_count)),
         Member("issues", JNum(repo.open_issues_count)),
         Member("updated_at", JStr(<<ISOInstant(repo.updated_at)>>)),
         Member("topics", topicValues(repo.topics)),
         Member("clone_url", JStr(repo.clone_url)),
         Member("ssh_url", JStr(repo.ssh_url)),
         Member("html_url", JStr(repo.html_url))>>)

\* The `data` object of exportToJSON.
exportData(sel, now) ==
  JObj(<<Member("generated", JStr(<<nowISOString(now)>>)),
         Member("source", JStr(<<"DevHub Explorer">>)),
         Member("count", JNum(Len(sel))),
         Member("repositories", JArr([i \in DOMAIN sel |-> projected(sel[i])]))>>)

\* (num / unit).toFixed(1), for the numbers whose tenths are no tie.
toFixed1(num, unit) ==
  LET tenths == (num * 10 + unit \div 2) \div unit
  IN  ToString(tenths \div 10) \o "." \o ToString(tenths % 10)

formatNumber(num) ==
  IF num >= 1000000 THEN toFixed1(num, 1000000) \o "M"
  ELSE IF num >= 1000 THEN toFixed1(num, 1000) \o "k"
  ELSE ToString(num)

Abs(n) == IF n < 0 THEN 0 - n ELSE n

\* Math.ceil(Math.abs(now - date) / one day), the times in hours.
diffDays(hours, now) == (Abs(now - hours) + HoursPerDay - 1) \div HoursPerDay

formatDate(hours, now) ==
  LET d == diffDays(hours, now)
  IN  IF d = 1 THEN "Yesterday"
      ELSE IF d < 7 THEN ToString(d) \o " days ago"
      ELSE IF d < 30 THEN ToString(d \div 7) \o " weeks ago"
      ELSE IF d < 365 THEN ToString(d \div 30) \o " months ago"
      ELSE ToString(d \div 365) \o " years ago"

\* new Date().getTime(), in hours: the clock is at midnight.
nowHours(now) == now * HoursPerDay

\* x || fallback for a string | null field.
orElse(field, fallback) ==
  IF field = Null \/ Str(field[1]) = "" THEN <<fallback>> ELSE field[1]

RECURSIVE joined(_, _)
\* parts.join(sep), the parts and the result being ropes.
joined(parts, sep) ==
  IF parts = <<>> THEN <<>>
  ELSE IF Len(parts) = 1 THEN parts[1]
  ELSE parts[1] \o <<sep>> \o joined(Tail(parts), sep)

\* The grave accent, which a TLA+ string cannot hold.
Backtick == "<grave>"

Fence == Backtick \o Backtick \o Backtick

backticked(topics) == [i \in DOMAIN topics |-> <<Backtick>> \o topics[i] \o <<Backtick>>]

cloneCommands(repo) ==
  <<Fence, "bash\n# HTTPS\ngit clone ">> \o repo.clone_url
  \o <<"\n\n# SSH\ngit clone ">> \o repo.ssh_url \o <<"\n", Fence, "\n">>

\* One entry of the Markdown report.  The pictographs of the labels are
\* left out.
markdownEntry(repo, now) ==
  <<"## [">> \o repo.full_name \o <<"](">> \o repo.html_url \o <<")\n\n">>
  \o orElse(repo.description, "No description available") \o <<"\n\n">>
  \o <<"**Language:** ">> \o orElse(repo.language, "Unknown") \o <<"\n">>
  \o <<"**Stars:** ", ToString(repo.stargazers_count), "\n">>
  \o <<"**Forks:** ", ToString(repo.forks_count), "\n">>
  \o <<"**Watchers:** ", ToString(repo.watchers_count), "\n">>
  \o <<"**Issues:** ", ToString(repo.open_issues_count), "\n">>
  \o <<"**Updated:** ", formatDate(repo.updated_at, nowHours(now)), "\n\n">>
  \o <<"**Clone Commands:**\n">> \o cloneCommands(repo) \o <<"\n">>
  \o (IF Len(repo.topics) > 0
      THEN <<"**Topics:** ">> \o joined(backticked(repo.topics), ", ") \o <<"\n">>
      ELSE <<>>)
  \o <<"\n---\n">>

markdownReport(sel, now) ==
  <<"# DevHub Explorer - Repository Report\n\n**Generated:** ",
    toLocaleDateString(now), "\n**Repositories:** ", ToString(Len(sel)),
    "\n\n---\n\n">>
  \o joined([i \in DOMAIN sel |-> markdownEntry(sel[i], now)], "\n")

\* Math.floor((now - updated_at) / one day), the times in hours.
daysSinceUpdate(repo, now) == (nowHours(now) - repo.updated_at) \div HoursPerDay

\* Variant: a thousand stars count as high activity, a hundred as medium.
activityLevelInclusive(repo) ==
  IF repo.stargazers_count >= HighStars THEN "high"
  ELSE IF repo.stargazers_count >= MediumStars THEN "medium"
  ELSE "low"

activityLevel(repo) ==
  IF repo.stargazers_count > HighStars THEN "high"
  ELSE IF repo.stargazers_count > MediumStars THEN "medium"
  ELSE "low"

isMaintained(repo, now) == daysSinceUpdate(repo, now) < MaintainedDays

topicsLine(repo) ==
  IF Len(repo.topics) > 0
  THEN <<"- Topics: ">>
       \o joined(SubSeq(repo.topics, 1, Min(5, Len(repo.topics))), ", ")
       \o (IF Len(repo.topics) > 5
           THEN <<" +", ToString(Len(repo.topics) - 5), " more">> ELSE <<>>)
  ELSE <<>>

topicsSection(repo) ==
  IF Len(repo.topics) > 3
  THEN <<"\n## Topics\n">>
       \o joined([i \in DOMAIN repo.topics |->
                    <<"- ", Backtick>> \o repo.topics[i] \o <<Backtick>>], "\n")
       \o <<"\n">>
  ELSE <<>>

\* One section of the narrative summary.  The pictographs of the template
\* are left out.
summarySection(repo, now) ==
  <<"# ">> \o repo.full_name \o <<"\n\n">>
  \o orElse(repo.description, "No description available")
  \o <<"\n\n## Repository Stats\n">>
  \o <<"- **Stars**: ", formatNumber(repo.stargazers_count), "\n">>
  \o <<"- **Forks**: ", formatNumber(repo.forks_count), "\n">>
  \o <<"- **Watchers**: ", formatNumber(repo.watchers_count), "\n">>
  \o <<"- **Issues**: ", ToString(repo.open_issues_count), "\n">>
  \o <<"- **Activity**: ", activityLevel(repo), " activity level\n">>
  \o <<"- **Last Updated**: ", formatDate(repo.updated_at, nowHours(now)), " (",
       ToString(daysSinceUpdate(repo, now)), " days ago)\n">>
  \o <<"- **Language**: ">> \o orElse(repo.language, "Not specified") \o <<"\n">>
  \o topicsLine(repo)
  \o <<"\n\n## Technical Details\n- **Repository**: [", Backtick>>
  \o repo.html_url \o <<Backtick, "](">> \o repo.html_url \o <<")\n">>
  \o <<"- **Clone Commands**:\n">> \o cloneCommands(repo)
  \o <<"- **Default Branch**: ", Backtick>> \o repo.default_branch \o <<Backtick, "\n">>
  \o <<"- **License**: ">>
  \o (IF repo.license # Null THEN repo.license[1].name ELSE <<"No license">>)
  \o <<"\n- **Repository Size**: ",
       IF repo.size # 0 THEN toFixed1(repo.size, 1024) \o " KB" ELSE "Unknown",
       "\n\n## Key Features\n">>
  \o <<IF isMaintained(repo, now) THEN "Actively maintained (updated recently)"
       ELSE "May not be actively maintained", "\n">>
  \o <<IF repo.forks_count > 10 THEN "Strong community contribution (forks)" ELSE "",
       "\n">>
  \o <<IF repo.stargazers_count > HighStars THEN "High popularity"
       ELSE IF repo.stargazers_count > MediumStars THEN "Growing popularity"
       ELSE "Emerging repository", "\n\n">>
  \o topicsSection(repo)
  \o <<"\n\n---\n">>

\* Array.prototype.sort with the comparator (a, b) => key(b) - key(a): the
\* records by descending key, records of equal key in their former order.
sortedDescending(seq, keys) ==
  LET rank(i) == 1 + Cardinality({j \in DOMAIN seq :
                        keys[j] > keys[i] \/ (keys[j] = keys[i] /\ j < i)})
  IN  [r \in DOMAIN seq |-> seq[CHOOSE i \in DOMAIN seq : rank(i) = r]]

sortedByStars(sel) ==
  sortedDescending(sel, [i \in DOMAIN sel |-> sel[i].stargazers_count])

sortedByUpdated(sel) ==
  sortedDescending(sel, [i \in DOMAIN sel |-> sel[i].updated_at])

languageOf(repo) == Str(orElse(repo.language, "Unknown"))

\* Object.entries of the language counts: the languages in the order they
\* are first met, each with the number of records that have it.
languageEntries(sel) ==
  LET first(i) == \A j \in 1..(i - 1) : languageOf(sel[j]) # languageOf(sel[i])
      firsts   == SelectSeq([i \in DOMAIN sel |-> i], first)
  IN  [e \in DOMAIN firsts |->
         [lang  |-> languageOf(sel[firsts[e]]),
          count |-> Cardinality({j \in DOMAIN sel :
                                   languageOf(sel[j]) = languageOf(sel[firsts[e]])})]]

languageDistribution(sel) ==
  LET entries == languageEntries(sel)
      byCount == sortedDescending(entries, [i \in DOMAIN entries |-> entries[i].count])
      top     == SubSeq(byCount, 1, Min(5, Len(byCount)))
  IN  joined([i \in DOMAIN top |->
                <<"- **", top[i].lang, "**: ", ToString(top[i].count),
                  " repositories">>], "\n")

Count(sel, Test(_)) == Cardinality({i \in DOMAIN sel : Test(sel[i])})

\* The closing analysis.  `byStars` is the selection after the first sort
\* in place, `byUpdated` after the second.
analysisSummary(byStars, byUpdated, now) ==
  LET recent(repo)      == nowHours(now) - repo.updated_at < 30 * HoursPerDay
      highActivity(repo) == repo.forks_count > 50 /\ repo.stargazers_count > HighStars
      growing(repo)     == repo.forks_count > 10 /\ repo.stargazers_count > MediumStars
      established(repo) == repo.forks_count > 5
  IN  <<"\n\n## Analysis Summary\n\n### Most Popular Repository\n- **">>
      \o byStars[1].full_name
      \o <<"** (", formatNumber(byStars[1].stargazers_count), " stars)">>
      \o <<"\n\n### Language Distribution\n">> \o languageDistribution(byStars)
      \o <<"\n\n### Activity Timeline\n">>
      \o joined([i \in DOMAIN byUpdated |->
                   <<"- **">> \o byUpdated[i].full_name
                   \o <<"**: Last updated ",
                        formatDate(byUpdated[i].updated_at, nowHours(now))>>], "\n")
      \o <<"\n">>
      \o (IF Count(byUpdated, recent) > 0
          THEN <<"\n**Recent Activity Detected**: ",
                 ToString(Count(byUpdated, recent)),
                 " repositories have been updated in the last 30 days.">>
          ELSE <<>>)
      \o <<"\n\n### Repository Maturity\n">>
      \o <<"- **High Activity**: ", ToString(Count(byUpdated, highActivity)),
           " repositories\n">>
      \o <<"- **Growing**: ", ToString(Count(byUpdated, growing)), " repositories\n">>
      \o <<"- **Established**: ", ToString(Count(byUpdated, established)),
           " repositories\n\n---\n\n">>
      \o <<"*This summary was generated by [DevHub Explorer](http://localhost:5176/) using GitHub API data*">>

summaryContent(sel, now) ==
  <<"# GitHub Repository Summary\n\n**Generated**: ", toLocaleDateString(now),
    "\n**Repositories Analyzed**: ", ToString(Len(sel)), "\n\n">>
  \o joined([i \in DOMAIN sel |-> summarySection(sel[i], now)], "\n\n---\n")
  \o analysisSummary(sortedByStars(sel), sortedByUpdated(sortedByStars(sel)), now)

\* new Blob([...], {type}) handed to the browser under a.download.
Blob(name, type, content) == [name |-> name, type |-> type, content |-> content]

\* The export buttons are shown while something is selected.
exportToJSON ==
  /\ selectedRepos # <<>>
  /\ download' = Some(Blob(<<"devhub-explorer-data-", ISODate(today), ".json">>,
                           "application/json",
                           stringify(exportData(selectedRepos, today), 0)))
  /\ UNCHANGED <<authVars, copyVars, repositories, page, loading, error, activeTab, searchQuery,
                 filters, bookmarks, selectedRepos, inflight, query, today>>

exportToMarkdown ==
  /\ selectedRepos # <<>>
  /\ download' = Some(Blob(<<"devhub-explorer-report-", ISODate(today), ".md">>,
                           "text/markdown",
                           markdownReport(selectedRepos, today)))
  /\ UNCHANGED <<authVars, copyVars, repositories, page, loading, error, activeTab, searchQuery,
                 filters, bookmarks, selectedRepos, inflight, query, today>>

\* The two selectedRepos.sort(...) calls of the template sort the array of
\* the state in place.
generateRepoSummary ==
  /\ selectedRepos # <<>>
  /\ download' = Some(Blob(<<"github-repo-summary-", toLocaleDateString(today), ".md">>,
                           "text/markdown",
                           summaryContent(selectedRepos, today)))
  /\ selectedRepos' = sortedByUpdated(sortedByStars(selectedRepos))
  /\ UNCHANGED <<authVars, copyVars, repositories, page, loading, error, activeTab, searchQuery,
                 filters, bookmarks, inflight, query, today>>

(***************************************************************************)
(* copyToClipboard.  The call starts navigator.clipboard.writeText and     *)
(* waits; when the write settles the rest of the function runs: on success *)
(* the indicator is set and a reset is armed, on failure the error is      *)
(* logged.  The card shows a button for the https and one for the ssh way  *)
(* of cloning.                                                             *)
(***************************************************************************)
CloneKinds == {"https", "ssh"}

\* The second argument of copyToClipboard for a card's button.
copyId(repo, kind) == ToString(repo.id) \o "-" \o kind

InitCopy ==
  /\ copiedRepo = Null
  /\ clipboardWrites = <<>>
  /\ resetTimers = 0

\* Variant: the indicator is set whether the write succeeded or not.
copiedAfterWriteAlways(shown, repoId, ok) == Some(repoId)

\* The indicator after the write for repoId has settled.
copiedAfterWrite(shown, repoId, ok) == IF ok THEN Some(repoId) ELSE shown

copyToClipboard(repoId) ==
  /\ Len(clipboardWrites) + resetTimers < MaxCopies
  /\ clipboardWrites' = Append(clipboardWrites, repoId)
  /\ UNCHANGED <<copiedRepo, resetTimers, authVars, download, repositories,
                 page, loading, error, activeTab, searchQuery, filters,
                 bookmarks, selectedRepos, inflight, query, today>>

\* The i-th pending write settles, fulfilled (ok) or rejected.
writeTextSettles(i, ok) ==
  /\ i \in DOMAIN clipboardWrites
  /\ copiedRepo' = copiedAfterWrite(copiedRepo, clipboardWrites[i], ok)
  /\ resetTimers' = IF ok THEN resetTimers + 1 ELSE resetTimers
  /\ clipboardWrites' = RemoveAt(clipboardWrites, i)
  /\ UNCHANGED <<authVars, download, repositories, page, loading, error,
                 activeTab, searchQuery, filters, bookmarks, selectedRepos,
                 inflight, query, today>>

\* One of the armed timeouts runs: setCopiedRepo(null).
copiedReset ==
  /\ resetTimers > 0
  /\ copiedRepo' = Null
  /\ resetTimers' = resetTimers - 1
  /\ UNCHANGED <<clipboardWrites, authVars, download, repositories, page,
                 loading, error, activeTab, searchQuery, filters, bookmarks,
                 selectedRepos, inflight, query, today>>

(***************************************************************************)
(* AuthProvider.  The state is user, loading (here authLoading),           *)
(* sessionStartTime and showAuthPrompt; `clock` is Date.now() in minutes,  *)
(* at least 1, and `timer` is the timeout armed by the usage-timer effect: *)
(* the start time its callback closed over and the time it is due.  An     *)
(* effect runs with the commit of the state update that changed one of its *)
(* dependencies; timeouts are never run before they are due.               *)
(***************************************************************************)
Max(a, b) == IF a >= b THEN a ELSE b

Users == {"u1"}

isAuthenticated(u) == u # Null

\* A start time as a JavaScript condition: null and 0 are falsy.
isSet(start) == start # Null /\ start[1] # 0

canUseWithoutAuth(start, t) ==
  ~isSet(start) \/ t - start[1] < USAGE_TIME_LIMIT

\* The second argument of setTimeout.
timeoutDelay(start, t) == USAGE_TIME_LIMIT - (t - start)

\* Variant: the callback asks for more than the limit.
limitReachedStrictly(start, t) == t - start > USAGE_TIME_LIMIT

\* The condition of the timeout's callback.
limitReached(start, t) == t - start >= USAGE_TIME_LIMIT

\* The usage-timer effect, run at time t with the state of one render: the
\* clean-up of the previous run has cleared its timeout.
usageTimerEffect(u, start, prompt, t) ==
  IF ~isAuthenticated(u) /\ isSet(start) /\ ~prompt
  THEN Some([start |-> start[1],
             due   |-> t + Max(0, timeoutDelay(start[1], t))])
  ELSE Null

\* The dependencies of the usage-timer effect.
TimerDeps(u, start, prompt) == <<isAuthenticated(u), start, prompt>>

\* Commit one batch of state updates of AuthProvider and run the effect
\* whose dependencies changed.
CommitAuth(u, l, start, prompt) ==
  /\ user' = u
  /\ authLoading' = l
  /\ sessionStartTime' = start
  /\ showAuthPrompt' = prompt
  /\ timer' = IF TimerDeps(u, start, prompt)
                   = TimerDeps(user, sessionStartTime, showAuthPrompt)
              THEN timer
              ELSE usageTimerEffect(u, start, prompt, clock)
  /\ UNCHANGED <<clock, appVars>>

\* AuthProvider after its first render and effects, supabase configured:
\* the session check is pending, nothing is armed.
InitAuthProvider ==
  /\ user = Null
  /\ authLoading = TRUE
  /\ sessionStartTime = Null
  /\ showAuthPrompt = FALSE
  /\ clock = 1
  /\ timer = Null

\* checkSession settles: getSession gives a session or none, or throws.
SessionOutcomes == {"session", "none", "throws"}

checkSession(outcome, u) ==
  /\ authLoading
  /\ CommitAuth(CASE outcome = "session" -> Some(u)
                  [] outcome = "none"    -> Null
                  [] OTHER               -> user,
                FALSE, sessionStartTime, showAuthPrompt)

\* The events of supabase.auth.onAuthStateChange and the sessions they
\* come with.
AuthEvents ==
  {"INITIAL_SESSION", "SIGNED_IN", "SIGNED_OUT", "TOKEN_REFRESHED", "USER_UPDATED"}

SessionsOf(event) ==
  CASE event = "SIGNED_OUT"      -> {Null}
    [] event = "INITIAL_SESSION" -> {Null} \cup {Some(u) : u \in Users}
    [] OTHER                     -> {Some(u) : u \in Users}

onAuthStateChange(event, session) ==
  CommitAuth(session, authLoading,
             IF event = "SIGNED_IN" THEN Null ELSE sessionStartTime,
             IF event = "SIGNED_IN" THEN FALSE ELSE showAuthPrompt)

\* A variant that restarts a timer that is already running.
startedAtRestarting(u, start, t) ==
  IF ~isAuthenticated(u) THEN Some(t) ELSE start

\* The start time after a call of startUsageTimer at time t.
startedAt(u, start, t) ==
  IF ~isAuthenticated(u) /\ ~isSet(start) THEN Some(t) ELSE start

\* Called early enough for the limit to elapse on this clock.
startUsageTimer ==
  /\ clock + USAGE_TIME_LIMIT <= MaxClock
  /\ CommitAuth(user, authLoading, startedAt(user, sessionStartTime, clock),
                showAuthPrompt)

resetUsageTimer == CommitAuth(user, authLoading, Null, FALSE)

\* The timeout is due and its callback runs; the timeout is spent.
timeoutFires ==
  /\ timer # Null
  /\ clock >= timer[1].due
  /\ IF limitReached(timer[1].start, clock)
     THEN CommitAuth(user, authLoading, sessionStartTime, TRUE)
     ELSE /\ timer' = Null
          /\ UNCHANGED <<user, authLoading, sessionStartTime, showAuthPrompt,
                         clock, appVars>>

\* A minute passes.
Tick ==
  /\ clock < MaxClock
  /\ clock' = clock + 1
  /\ UNCHANGED <<user, authLoading, sessionStartTime, showAuthPrompt, timer,
                 appVars>>

(***************************************************************************)
(* The application: the state after the first render and its effect.       *)
(***************************************************************************)
InitialUi ==
  [repositories |-> <<>>, loading |-> FALSE, error |-> Null,
   inflight |-> <<>>]

Init ==
  /\ today \in Days
  /\ page = 1
  /\ activeTab = "trending"
  /\ searchQuery = ""
  /\ filters = DefaultFilters
  /\ bookmarks = <<>>
  /\ selectedRepos = <<>>
  /\ LET ui == fetchDispatch(InitialUi, Deps(1, "trending", "", DefaultFilters, <<>>))
     IN  /\ repositories = ui.repositories
         /\ loading = ui.loading
         /\ error = ui.error
         /\ inflight = ui.inflight
  /\ query = Null
  /\ download = Null
  /\ InitAuthProvider
  /\ InitCopy

\* A fetch in flight settles.
Settles ==
  \E i \in 1..Len(inflight) : \E resp \in Responses(inflight[i]) :
    completeFetch(i, resp)

\* The user acts while fewer than MaxOutstanding requests are in flight.
Next ==
  \/ Len(inflight) < MaxOutstanding /\ handlePrevPage
  \/ Len(inflight) < MaxOutstanding /\ handleNextPage
  \/ \E tab \in Tabs : Len(inflight) < MaxOutstanding /\ handleTabChange(tab)
  \/ Len(inflight) < MaxOutstanding /\ handleSearch
  \/ \E key \in FilterKeys : \E value \in FilterOptions[key] :
       Len(inflight) < MaxOutstanding /\ handleFilterChange(key, value)
  \/ \E text \in Texts : Len(inflight) < MaxOutstanding /\ setSearchQuery(text)
  \/ Settles

Spec == Init /\ [][Next]_vars

(***************************************************************************)
(* Overlapping requests: the user changes tab and page while up to         *)
(* MaxInflight requests are in flight, and the fetches settle in any       *)
(* order.                                                                  *)
(***************************************************************************)
NextRace ==
  \/ Len(inflight) < MaxInflight /\ handlePrevPage
  \/ Len(inflight) < MaxInflight /\ handleNextPage
  \/ \E tab \in Tabs : Len(inflight) < MaxInflight /\ handleTabChange(tab)
  \/ Settles

SpecRace == Init /\ [][NextRace]_vars

(***************************************************************************)
(* Bookmarks: the user changes tab and bookmarks or unbookmarks one of the *)
(* first MaxClick cards shown, up to MaxBookmarks bookmarks.               *)
(***************************************************************************)
NextBookmarks ==
  \/ \E tab \in Tabs : Len(inflight) < MaxOutstanding /\ handleTabChange(tab)
  \/ \E repo \in Clickable(repositories) :
       Len(inflight) < MaxOutstanding /\ toggleBookmark(repo)
  \/ Settles

SpecBookmarks == Init /\ [][NextBookmarks]_vars

(***************************************************************************)
(* Selection: the user changes tab, pages forward, ticks and unticks one   *)
(* of the first MaxClick cards shown, up to MaxSelected selected records,  *)
(* and clears the selection.                                               *)
(***************************************************************************)
NextSelection ==
  \/ Len(inflight) < MaxOutstanding /\ handleNextPage
  \/ \E tab \in Tabs : Len(inflight) < MaxOutstanding /\ handleTabChange(tab)
  \/ \E repo \in Clickable(repositories) :
       Len(inflight) < MaxOutstanding /\ toggleRepoSelection(repo)
  \/ Len(inflight) < MaxOutstanding /\ clearSelection
  \/ Settles

SpecSelection == Init /\ [][NextSelection]_vars

(***************************************************************************)
(* Bookmarks and selection together: the user goes from one to another of  *)
(* the trending, recent and bookmarks tabs and bookmarks, unbookmarks,     *)
(* ticks and unticks one of the first MaxClick cards shown, each time      *)
(* after the fetch before has settled.                                     *)
(***************************************************************************)
NextToggles ==
  \/ \E tab \in Tabs \ {"search"} : inflight = <<>> /\ handleTabChange(tab)
  \/ \E repo \in Clickable(repositories) :
       inflight = <<>> /\ toggleBookmark(repo)
  \/ \E repo \in Clickable(repositories) :
       inflight = <<>> /\ toggleRepoSelection(repo)
  \/ Settles

SpecToggles == Init /\ [][NextToggles]_vars

(***************************************************************************)
(* Copying: the user changes tab and copies a clone address of one of the  *)
(* first MaxClick cards shown while fetches and clipboard writes settle.   *)
(* A write that was started settles and a timeout that was armed runs.     *)
(***************************************************************************)
WriteSettles ==
  \E i \in 1..Len(clipboardWrites) : \E ok \in BOOLEAN : writeTextSettles(i, ok)

NextCopy ==
  \/ \E tab \in Tabs : Len(inflight) < MaxOutstanding /\ handleTabChange(tab)
  \/ \E repo \in Clickable(repositories) : \E kind \in CloneKinds :
       copyToClipboard(copyId(repo, kind))
  \/ WriteSettles
  \/ copiedReset
  \/ Settles

SpecCopy ==
  Init /\ [][NextCopy]_vars /\ WF_vars(WriteSettles) /\ WF_vars(copiedReset)

(***************************************************************************)
(* AuthProvider on its own: the session check settles, auth events arrive, *)
(* the usage timer is started and reset, time passes and the timeout runs. *)
(* The clock keeps going and a due timeout is run.                         *)
(***************************************************************************)
NextAuth ==
  \/ \E outcome \in SessionOutcomes : \E u \in Users : checkSession(outcome, u)
  \/ \E event \in AuthEvents : \E session \in SessionsOf(event) :
       onAuthStateChange(event, session)
  \/ startUsageTimer
  \/ resetUsageTimer
  \/ timeoutFires
  \/ Tick

SpecAuth ==
  Init /\ [][NextAuth]_vars /\ WF_vars(Tick) /\ WF_vars(timeoutFires)

(***************************************************************************)
(* Export: a page of four records is shown; the user ticks and unticks     *)
(* any of them, up to MaxSelected, clears the selection and runs the three *)
(* exports.  The times of the records are in hours, the day of the model   *)
(* starting at hour ExportNow.                                             *)
(***************************************************************************)
ExportNow == 19783 * HoursPerDay

ExportPage ==
  << [id |-> 1, full_name |-> <<"facebook/react">>,
      description |-> Some(<<"The library for ", "\"", "web", "\"", " UIs">>),
      language |-> Some(<<"JavaScript">>),
      stargazers_count |-> 1001, forks_count |-> 51, watchers_count |-> 1001,
      open_issues_count |-> 7, updated_at |-> ExportNow - (89 * HoursPerDay + 23),
      topics |-> << <<"ui">>, <<"react">> >>,
      clone_url |-> <<"https://github.com/facebook/react.git">>,
      ssh_url |-> <<"git@github.com:facebook/react.git">>,
      html_url |-> <<"https://github.com/facebook/react">>,
      default_branch |-> <<"main">>,
      license |-> Some([key |-> "mit", name |-> <<"MIT License">>]),
      size |-> 2048],
     [id |-> 2, full_name |-> <<"rust-lang/rust">>,
      description |-> Null, language |-> Null,
      stargazers_count |-> 1000, forks_count |-> 11, watchers_count |-> 1000,
      open_issues_count |-> 0, updated_at |-> ExportNow - 90 * HoursPerDay,
      topics |-> <<>>,
      clone_url |-> <<"https://github.com/rust-lang/rust.git">>,
      ssh_url |-> <<"git@github.com:rust-lang/rust.git">>,
      html_url |-> <<"https://github.com/rust-lang/rust">>,
      default_branch |-> <<"master">>, license |-> Null, size |-> 0],
     [id |-> 3, full_name |-> <<"torvalds/linux">>,
      description |-> Some(<<"tree at C:", "\\", "src", "\n", "second line">>),
      language |-> Some(<<"C">>),
      stargazers_count |-> 101, forks_count |-> 10, watchers_count |-> 101,
      open_issues_count |-> 12, updated_at |-> ExportNow - 1,
      topics |-> << <<"kernel">>, <<"os">>, <<"c">>, <<"linux">>,
                    <<"a", "\"", "b">>, <<"x">> >>,
      clone_url |-> <<"https://github.com/torvalds/linux.git">>,
      ssh_url |-> <<"git@github.com:torvalds/linux.git">>,
      html_url |-> <<"https://github.com/torvalds/linux">>,
      default_branch |-> <<"master">>,
      license |-> Some([key |-> "gpl-2.0", name |-> <<"GNU General Public License v2.0">>]),
      size |-> 1536],
     [id |-> 4, full_name |-> <<"octocat/hello">>,
      description |-> Some(<<>>), language |-> Some(<<"JavaScript">>),
      stargazers_count |-> 100, forks_count |-> 5, watchers_count |-> 100,
      open_issues_count |-> 1, updated_at |-> ExportNow - 400 * HoursPerDay,
      topics |-> <<>>,
      clone_url |-> <<"https://github.com/octocat/hello.git">>,
      ssh_url |-> <<"git@github.com:octocat/hello.git">>,
      html_url |-> <<"https://github.com/octocat/hello">>,
      default_branch |-> <<"main">>, license |-> Null, size |-> 0] >>

InitExport ==
  /\ today \in Days
  /\ page = 1
  /\ activeTab = "trending"
  /\ searchQuery = ""
  /\ filters = DefaultFilters
  /\ bookmarks = <<>>
  /\ selectedRepos = <<>>
  /\ repositories = ExportPage
  /\ loading = FALSE
  /\ error = Null
  /\ inflight = <<>>
  /\ query = Null
  /\ download = Null
  /\ InitAuthProvider
  /\ InitCopy

NextExport ==
  \/ \E i \in DOMAIN repositories : toggleRepoSelection(repositories[i])
  \/ clearSelection
  \/ exportToMarkdown
  \/ exportToJSON
  \/ generateRepoSummary

SpecExport == InitExport /\ [][NextExport]_vars

(***************************************************************************)
(* buildSearchQuery on its own: every combination of the inputs below.     *)
(***************************************************************************)
QueryTexts == {"", "react", " "}

QueryDays == {19783, 20458}

QueryLanguages == {"", "Rust", "C++"}

\* "XX" is no key of countryKeywords.
QueryCountries == {"", "US", "JP", "XX"}

QueryFilters ==
  [language : QueryLanguages, stars : StarTiers, forks : ForkTiers,
   updated : UpdatedTiers, topics : BOOLEAN, country : QueryCountries]

InitQuery ==
  /\ today \in QueryDays
  /\ searchQuery \in QueryTexts
  /\ filters \in QueryFilters
  /\ query = Null
  /\ download = Null
  /\ InitAuthProvider
  /\ InitCopy
  /\ page = 1
  /\ activeTab = "search"
  /\ bookmarks = <<>>
  /\ selectedRepos = <<>>
  /\ repositories = <<>>
  /\ loading = FALSE
  /\ error = Null
  /\ inflight = <<>>

callBuildSearchQuery ==
  /\ query = Null
  /\ query' = Some(buildSearchQuery(searchQuery, filters, today))
  /\ UNCHANGED <<repositories, page, loading, error, activeTab, searchQuery,
                 filters, bookmarks, selectedRepos, inflight, today, sideVars>>

NextQuery == callBuildSearchQuery

SpecQuery == InitQuery /\ [][NextQuery]_vars

(***************************************************************************)
(* Vocabulary of the properties.                                           *)
(***************************************************************************)
FetchTabs == {"trending", "recent", "search"}

\* The request the fetch dispatch issues for the dependencies d.
RequestFor(d) ==
  LET reqs == fetchDispatch(InitialUi, d).inflight IN reqs[Len(reqs)]

\* Calendar dates of the model's days, from the calendar itself.
KnownDates ==
  (19782 :> "2024-02-29") @@ (19776 :> "2024-02-23") @@
  (19773 :> "2024-02-20") @@ (19753 :> "2024-01-31") @@
  (20457 :> "2026-01-04") @@ (20451 :> "2025-12-29") @@
  (20448 :> "2025-12-26") @@ (20428 :> "2025-12-06")

\* This step is the issue of one more request.
Issues == Len(inflight') > Len(inflight)

IssuedRequest == inflight'[Len(inflight')]

(***************************************************************************)
(* C1.  Whenever a fetch issued by fetchRepositories completes with a      *)
(* non-success HTTP status, the state after the completion has an empty    *)
(* result list and a non-empty error message, whatever the list held       *)
(* before.  The code sets the message but keeps the list.                  *)
(***************************************************************************)
C1_NonSuccessClearsResults ==
  [][\A i \in 1..Len(inflight) : \A resp \in Responses(inflight[i]) :
       (completeFetch(i, resp) /\ resp.kind = "http" /\ ~resp.ok)
         => /\ repositories' = <<>>
            /\ error' # Null
            /\ error'[1] # ""]_vars

(***************************************************************************)
(* C2.  Responses are applied in the order they resolve: a successful      *)
(* response is applied to the result list also when a request issued       *)
(* later is still outstanding, so the list can end up showing the results  *)
(* of an older tab or page than the current one.                           *)
(***************************************************************************)
C2_LastResolvedWins ==
  [][\A i \in 1..Len(inflight) : \A resp \in Responses(inflight[i]) :
       (completeFetch(i, resp) /\ thrown(resp) = Null /\ i < Len(inflight))
         => repositories' = itemsOrEmpty(resp)]_vars

\* Nothing is in flight, no error is shown, and the list shown is the page
\* of another tab or page than the current one.
C2_StaleResultsShown ==
  /\ activeTab \in FetchTabs
  /\ inflight = <<>>
  /\ ~loading
  /\ error = Null
  /\ repositories # <<>>
  /\ repositories # Catalogue(RequestFor(CurrentDeps))
  /\ \E tab \in FetchTabs : \E p \in 1..MaxPage :
       /\ <<tab, p>> # <<activeTab, page>>
       /\ repositories =
            Catalogue(RequestFor(Deps(p, tab, searchQuery, filters, bookmarks)))

(***************************************************************************)
(* C3.  Each single tab switch, page change, filter change or search       *)
(* submit issues at most one network request; a tab switch that also       *)
(* resets the page to 1 issues one request, not two.                       *)
(***************************************************************************)
C3_AtMostOneRequestPerAction ==
  [][(\/ handlePrevPage
      \/ handleNextPage
      \/ \E tab \in Tabs : handleTabChange(tab)
      \/ handleSearch
      \/ \E key \in FilterKeys : \E value \in FilterOptions[key] :
           handleFilterChange(key, value))
       => Len(inflight') <= Len(inflight) + 1]_vars

\* Page 2 of trending was shown, then the tab was switched to recent: the
\* page is 1 again and exactly one request, for recent page 1, is in flight.
C3_TabSwitchWithPageReset ==
  /\ activeTab = "recent"
  /\ page = 1
  /\ repositories = Catalogue(RequestFor(Deps(2, "trending", "", DefaultFilters, <<>>)))
  /\ repositories # <<>>
  /\ Len(inflight) = 1
  /\ inflight[1] = RequestFor(CurrentDeps)
  /\ inflight[1].page = 1

(***************************************************************************)
(* C4.  buildSearchQuery returns a string with exactly one qualifier token *)
(* for each filter field that is not at its default and none for a field   *)
(* at its default, in the fixed order language, stars, forks, pushed,      *)
(* topics, country after the free text.                                    *)
(***************************************************************************)
FieldOrder == <<"language", "stars", "forks", "updated", "topics", "country">>

KeywordTexts == {countryKeywords[c] : c \in DOMAIN countryKeywords}

\* The segments that mark a field's token.
Marker(field) ==
  CASE field = "language" -> {"language:"}
    [] field = "stars"    -> {"stars:>"}
    [] field = "forks"    -> {"forks:>"}
    [] field = "updated"  -> {"pushed:>"}
    [] field = "topics"   -> {"topics:>0"}
    [] field = "country"  -> KeywordTexts

TokenPositions(rope, field) == {i \in DOMAIN rope : rope[i] \in Marker(field)}

AtDefault(f, field) == f[field] = DefaultFilters[field]

\* The tokens present are in the fixed order, each right after one space,
\* and all of them after the free text.
InFieldOrder(rope, text) ==
  /\ \A a, b \in DOMAIN FieldOrder :
       a < b => \A i \in TokenPositions(rope, FieldOrder[a]) :
                \A j \in TokenPositions(rope, FieldOrder[b]) : i < j
  /\ \A a \in DOMAIN FieldOrder : \A i \in TokenPositions(rope, FieldOrder[a]) :
       /\ i > 1
       /\ rope[i - 1] = " "
       /\ text # "" => (rope[1] = text /\ i > 2)

Contributes(f, field) ==
  /\ ~AtDefault(f, field)
  /\ field = "country" => f.country \in DOMAIN countryKeywords

DefaultText == "created:>" \o KnownDates[today - 30]

StarText ==
  ("any" :> "") @@ ("100+" :> " stars:>100") @@ ("1000+" :> " stars:>1000") @@
  ("10000+" :> " stars:>10000")

ForkText ==
  ("any" :> "") @@ ("10+" :> " forks:>10") @@ ("100+" :> " forks:>100") @@
  ("1000+" :> " forks:>1000")

UpdatedDaysAgo == ("day" :> 1) @@ ("week" :> 7) @@ ("month" :> 30)

ExpectedText(text, f, now) ==
  text
    \o (IF f.language = "" THEN "" ELSE " language:" \o f.language)
    \o StarText[f.stars]
    \o ForkText[f.forks]
    \o (IF f.updated = "any" THEN ""
        ELSE " pushed:>" \o KnownDates[now - UpdatedDaysAgo[f.updated]])
    \o (IF f.topics THEN " topics:>0" ELSE "")
    \o (IF f.country \in DOMAIN countryKeywords
        THEN " " \o countryKeywords[f.country] ELSE "")

C6_TextThenSpacedTokens ==
  query # Null =>
    /\ ExpectedText(searchQuery, filters, today) # ""
         => Str(query[1]) = ExpectedText(searchQuery, filters, today)
    /\ (searchQuery = ""
        /\ filters = [DefaultFilters EXCEPT !.stars = "1000+", !.language = "Rust"])
         => Str(query[1]) = " language:Rust stars:>1000"

\* The example of the claim has been built.
C6_RustExampleBuilt ==
  /\ query # Null
  /\ searchQuery = ""
  /\ filters = [DefaultFilters EXCEPT !.stars = "1000+", !.language = "Rust"]
  /\ Str(query[1]) = " language:Rust stars:>1000"

C8_RequestDeterminedByTab ==
  [][Issues =>
       /\ activeTab' \in FetchTabs
       /\ IssuedRequest.order = "desc"
       /\ IssuedRequest.per_page = 20
       /\ IssuedRequest.page = page'
       /\ activeTab' = "trending" =>
            /\ IssuedRequest.q = "created:>" \o KnownDates[today - 10]
            /\ IssuedRequest.sort = "stars"
       /\ activeTab' = "recent" =>
            /\ IssuedRequest.q = "pushed:>" \o KnownDates[today - 7]
            /\ IssuedRequest.sort = "updated"
       /\ activeTab' = "search" =>
            /\ IssuedRequest.q = Str(buildSearchQuery(searchQuery', filters', today))
            /\ IssuedRequest.sort = "stars"]_vars

\* The request of the search tab for 'react' in Rust is in flight while the
\* second page of the recent tab is still shown.
C8_SearchRequestInFlight ==
  /\ today = 19783
  /\ activeTab = "search"
  /\ inflight = <<[q |-> "react language:Rust", sort |-> "stars",
                   order |-> "desc", page |-> 1, per_page |-> 20]>>
  /\ repositories = Catalogue([q |-> "pushed:>2024-02-23", sort |-> "updated",
                               order |-> "desc", page |-> 2, per_page |-> 20])
  /\ repositories # <<>>

(***************************************************************************)
(* C9.  When a fetch completes successfully the result list becomes        *)
(* exactly the items of that response, or the empty list when the response *)
(* has no items: nothing of the page shown before is kept or merged.       *)
(***************************************************************************)
C9_SuccessReplacesResults ==
  [][\A i \in 1..Len(inflight) : \A resp \in Responses(inflight[i]) :
       (completeFetch(i, resp) /\ resp.ok /\ resp.message = Null)
         => repositories' = IF resp.items = Null THEN <<>> ELSE resp.items[1]]_vars

\* Page 2 of trending is shown after page 1 was: only the items of page 2.
C9_SecondPageShownAlone ==
  /\ activeTab = "trending"
  /\ page = 2
  /\ inflight = <<>>
  /\ error = Null
  /\ repositories # <<>>
  /\ \A i \in DOMAIN repositories : repositories[i].id > PerPage
  /\ Len(repositories) = TrendingTotal - PerPage

(***************************************************************************)
(* C10.  When a response has a success status but its body carries a       *)
(* 'message' field, the fetch is a failure: the error message is that      *)
(* text, the items of the response are not applied, and the result list is *)
(* cleared.  The code sets the message and keeps the list shown before.    *)
(***************************************************************************)
C10_ApiMessageClearsResults ==
  [][\A i \in 1..Len(inflight) : \A resp \in Responses(inflight[i]) :
       (completeFetch(i, resp) /\ resp.ok /\ resp.message # Null)
         => /\ error' = resp.message
            /\ repositories' = <<>>]_vars

(***************************************************************************)
(* C11.  While the active tab is 'bookmarks' the fetch dispatch issues no  *)
(* request: each time it runs (the tab, the page or the bookmark list      *)
(* changed) the requests in flight stay as they are and the result list    *)
(* becomes the repository records of the bookmark list, in bookmark order. *)
(***************************************************************************)
C11_BookmarksTabDerivedFromBookmarks ==
  [][(activeTab' = "bookmarks" /\ CurrentDeps' # CurrentDeps)
       => /\ inflight' = inflight
          /\ Len(repositories') = Len(bookmarks')
          /\ \A k \in DOMAIN bookmarks' :
               repositories'[k] = bookmarks'[k].repository]_vars

\* The bookmarks tab shows two bookmarks, of two different repositories,
\* and nothing is in flight.
C11_TwoBookmarksShown ==
  /\ activeTab = "bookmarks"
  /\ inflight = <<>>
  /\ Len(bookmarks) = 2
  /\ Len(repositories) = 2
  /\ repositories[1] = bookmarks[1].repository
  /\ repositories[2] = bookmarks[2].repository
  /\ repositories[1].id # repositories[2].id

(***************************************************************************)
(* Vocabulary of the bookmark properties.                                  *)
(***************************************************************************)
BookmarkedIds(bm) == {bm[i].repository.id : i \in DOMAIN bm}

IsBookmarkedIn(bm, repo) == repo.id \in BookmarkedIds(bm)

WithoutRepo(bm, repo) ==
  LET other(b) == b.repository.id # repo.id IN SelectSeq(bm, other)

(***************************************************************************)
(* C12, as claimed.  Applying toggleBookmark twice to the same record      *)
(* returns the bookmark list to its original state, when the record was    *)
(* not bookmarked at first and when it was.  The step is the first toggle, *)
(* the second is applied to the list it leaves.                            *)
(***************************************************************************)
C12_ToggleTwiceRestoresList ==
  [][\A repo \in Clickable(repositories) :
       toggleBookmark(repo) => toggledBookmarks(bookmarks', repo) = bookmarks]_vars

(***************************************************************************)
(* C12, amended.  Applying toggleBookmark twice to the same record leaves  *)
(* the same set of bookmarked repositories.  When the record was not       *)
(* bookmarked at first the list is exactly the original one; when it was,  *)
(* the other bookmarks keep their order and the record is at the end of    *)
(* the list, with the time of the second toggle and empty notes.           *)
(***************************************************************************)
C12_ToggleTwiceRestoresSet ==
  [][\A repo \in Clickable(repositories) :
       toggleBookmark(repo) =>
         LET twice == toggledBookmarks(bookmarks', repo)
         IN  /\ BookmarkedIds(twice) = BookmarkedIds(bookmarks)
             /\ Len(twice) = Len(bookmarks)
             /\ ~IsBookmarkedIn(bookmarks, repo) => twice = bookmarks
             /\ IsBookmarkedIn(bookmarks, repo) =>
                   twice = Append(WithoutRepo(bookmarks, repo),
                                  [repository |-> repo, bookmarkedAt |-> today,
                                   notes |-> ""])]_vars

\* Two bookmarks, and the card that can be clicked is the first of them:
\* toggling it removes a bookmark that is not the last of the list.
C12_FirstOfTwoBookmarksClickable ==
  /\ Len(bookmarks) = 2
  /\ bookmarks[1].repository \in Clickable(repositories)
  /\ bookmarks[2].repository.id # bookmarks[1].repository.id

(***************************************************************************)
(* C13.  The selection is empty right after every tab change, to any of    *)
(* the four tabs, and right after the Clear action; a tab change also      *)
(* resets the page to 1.                                                   *)
(***************************************************************************)
C13_SelectionClearedByTabChangeAndClear ==
  [][/\ (\E tab \in Tabs : handleTabChange(tab))
          => (selectedRepos' = <<>> /\ page' = 1)
     /\ clearSelection => selectedRepos' = <<>>]_vars

\* Two records are selected, one of them no longer shown, and the page is
\* 2: a tab change or Clear from here has a selection to empty and a page to
\* reset.
C13_TwoSelectedOnSecondPage ==
  /\ page = 2
  /\ Len(selectedRepos) = 2
  /\ \E i \in DOMAIN selectedRepos :
       \A k \in DOMAIN repositories : repositories[k].id # selectedRepos[i].id

(***************************************************************************)
(* Vocabulary of the export properties: JSON.parse, as a recursive descent *)
(* over the pieces of a document.  A result is [ok, v, next]: whether a    *)
(* value was read, the value, and the position after it.                   *)
(***************************************************************************)
At(doc, i) == IF i \in DOMAIN doc THEN doc[i] ELSE ""

\* The white space that stands between the pieces of a document.
WhitespacePieces == {" "} \cup {Indent(level) : level \in 0..4}

IsWhitespace(piece) == piece \in WhitespacePieces

IsDigit(piece) == \E d \in DOMAIN Digit : Digit[d] = piece

DigitValue(piece) == (CHOOSE d \in DOMAIN Digit : Digit[d] = piece) - 1

Unreadable == [ok |-> FALSE, v |-> JNull, next |-> 0]

Read(value, next) == [ok |-> TRUE, v |-> value, next |-> next]

RECURSIVE SkipWhitespace(_, _)
SkipWhitespace(doc, i) ==
  IF IsWhitespace(At(doc, i)) THEN SkipWhitespace(doc, i + 1) ELSE i

RECURSIVE ReadString(_, _, _)
\* The text up to the closing quote, position i being after the opening one.
ReadString(doc, i, acc) ==
  LET c == At(doc, i)
      e == At(doc, i + 1)
  IN  IF c = "" THEN Unreadable
      ELSE IF c = "\"" THEN Read(JStr(acc), i + 1)
      ELSE IF c = "\n" THEN Unreadable
      ELSE IF c = "\\"
           THEN IF e = "\"" THEN ReadString(doc, i + 2, Append(acc, "\""))
                ELSE IF e = "\\" THEN ReadString(doc, i + 2, Append(acc, "\\"))
                ELSE IF e = "n" THEN ReadString(doc, i + 2, Append(acc, "\n"))
                ELSE Unreadable
      ELSE ReadString(doc, i + 1, Append(acc, c))

RECURSIVE ReadDigits(_, _, _)
ReadDigits(doc, i, acc) ==
  IF IsDigit(At(doc, i))
  THEN ReadDigits(doc, i + 1, acc * 10 + DigitValue(At(doc, i)))
  ELSE Read(JNum(acc), i)

RECURSIVE ParseValue(_, _), ParseElements(_, _, _), ParseMembers(_, _, _)
\* After an element of an array: a comma and the next element, or the end.
AfterElement(doc, acc, element, j) ==
  IF ~element.ok THEN Unreadable
  ELSE IF At(doc, j) = "," THEN ParseElements(doc, j + 1, Append(acc, element.v))
  ELSE IF At(doc, j) = "]" THEN Read(JArr(Append(acc, element.v)), j + 1)
  ELSE Unreadable

\* The element is read once, then looked at.
ParseElements(doc, i, acc) ==
  CHOOSE r \in {AfterElement(doc, acc, element, SkipWhitespace(doc, element.next)) :
                  element \in {ParseValue(doc, i)}} : TRUE

\* After a member of an object: a comma and the next member, or the end.
AfterMember(doc, all, value, m) ==
  IF ~value.ok THEN Unreadable
  ELSE IF At(doc, m) = "," THEN ParseMembers(doc, m + 1, all)
  ELSE IF At(doc, m) = "}" THEN Read(JObj(all), m + 1)
  ELSE Unreadable

AfterKey(doc, acc, key, k) ==
  CHOOSE r \in {AfterMember(doc, Append(acc, Member(Str(key.v.v), value.v)), value,
                            SkipWhitespace(doc, value.next)) :
                  value \in {IF key.ok /\ At(doc, k) = ":"
                             THEN ParseValue(doc, k + 1) ELSE Unreadable}} : TRUE

MemberAt(doc, acc, j) ==
  CHOOSE r \in {AfterKey(doc, acc, key, SkipWhitespace(doc, key.next)) :
                  key \in {IF At(doc, j) = "\""
                           THEN ReadString(doc, j + 1, <<>>) ELSE Unreadable}} : TRUE

ParseMembers(doc, i, acc) == MemberAt(doc, acc, SkipWhitespace(doc, i))

ParseValue(doc, i0) ==
  LET i == SkipWhitespace(doc, i0)
      c == At(doc, i)
  IN  IF c = "null" THEN Read(JNull, i + 1)
      ELSE IF c = "\"" THEN ReadString(doc, i + 1, <<>>)
      ELSE IF IsDigit(c) THEN ReadDigits(doc, i, 0)
      ELSE IF c = "["
           THEN IF At(doc, SkipWhitespace(doc, i + 1)) = "]"
                THEN Read(JArr(<<>>), SkipWhitespace(doc, i + 1) + 1)
                ELSE ParseElements(doc, i + 1, <<>>)
      ELSE IF c = "{"
           THEN IF At(doc, SkipWhitespace(doc, i + 1)) = "}"
                THEN Read(JObj(<<>>), SkipWhitespace(doc, i + 1) + 1)
                ELSE ParseMembers(doc, i + 1, <<>>)
      ELSE Unreadable

\* JSON.parse(text): the value, when the whole text is one value.
Parsed(doc) ==
  LET r == ParseValue(doc, 1)
  IN  IF r.ok /\ SkipWhitespace(doc, r.next) = Len(doc) + 1 THEN r ELSE Unreadable

HasMember(object, key) ==
  object.t = "obj" /\ \E i \in DOMAIN object.v : object.v[i].k = key

\* object[key]
Get(object, key) ==
  object.v[CHOOSE i \in DOMAIN object.v : object.v[i].k = key].val

JsonDownloaded ==
  download # Null /\ download[1].type = "application/json"

(***************************************************************************)
(* C14.  The document built by exportToJSON round-trips: parsing it gives  *)
(* 'count' equal to the number of selected records and a 'repositories'    *)
(* sequence of the same length and order whose projected fields equal the  *)
(* corresponding fields of the source records.                             *)
(***************************************************************************)
C14_JsonRoundTrips ==
  [][exportToJSON =>
       \E r \in {Parsed(download'[1].content)} :
         /\ r.ok
         /\ HasMember(r.v, "count")
         /\ Get(r.v, "count") = JNum(Len(selectedRepos))
         /\ HasMember(r.v, "repositories")
         /\ \E list \in {Get(r.v, "repositories")} :
              /\ list.t = "arr"
              /\ Len(list.v) = Len(selectedRepos)
              /\ \A i \in DOMAIN selectedRepos :
                   \E o \in {list.v[i]} : \E src \in {selectedRepos[i]} :
                     /\ \A key \in {"name", "description", "language", "stars",
                                    "forks", "watchers", "issues", "updated_at",
                                    "topics", "clone_url", "ssh_url", "html_url"} :
                          HasMember(o, key)
                     /\ Get(o, "name") = JStr(src.full_name)
                     /\ Get(o, "description") =
                          (IF src.description = Null THEN JNull
                           ELSE JStr(src.description[1]))
                     /\ Get(o, "language") =
                          (IF src.language = Null THEN JNull
                           ELSE JStr(src.language[1]))
                     /\ Get(o, "stars") = JNum(src.stargazers_count)
                     /\ Get(o, "forks") = JNum(src.forks_count)
                     /\ Get(o, "watchers") = JNum(src.watchers_count)
                     /\ Get(o, "issues") = JNum(src.open_issues_count)
                     /\ Get(o, "updated_at") = JStr(<<ISOInstant(src.updated_at)>>)
                     /\ Get(o, "topics").t = "arr"
                     /\ Len(Get(o, "topics").v) = Len(src.topics)
                     /\ \A t \in DOMAIN src.topics :
                          Get(o, "topics").v[t] = JStr(src.topics[t])
                     /\ Get(o, "clone_url") = JStr(src.clone_url)
                     /\ Get(o, "ssh_url") = JStr(src.ssh_url)
                     /\ Get(o, "html_url") = JStr(src.html_url)]_vars

\* A JSON document of two records has been downloaded: one whose
\* description has a backslash and a line feed and whose topics have a
\* double quote, and one whose description and language are null.
C14_TwoRecordsExported ==
  /\ JsonDownloaded
  /\ Len(selectedRepos) = 2
  /\ selectedRepos[1].id = 3
  /\ selectedRepos[2].id = 2
  /\ \E r \in {Parsed(download[1].content)} :
       r.ok /\ Get(r.v, "count") = JNum(2)

(***************************************************************************)
(* C15.  Each of the three export operations (exportToMarkdown,            *)
(* exportToJSON, generateRepoSummary) leaves the selection (its members    *)
(* and their order), the bookmark list, the result list, the page and the  *)
(* active tab unchanged.  generateRepoSummary sorts the selection in       *)
(* place.                                                                  *)
(***************************************************************************)
C15_ExportsChangeNoState ==
  [][(exportToMarkdown \/ exportToJSON \/ generateRepoSummary)
       => UNCHANGED <<selectedRepos, bookmarks, repositories, page, activeTab>>]_vars

(***************************************************************************)
(* Vocabulary of the summary properties: where the pieces of a set stand   *)
(* in a document, in order.                                                *)
(***************************************************************************)
Positions(rope, pieces) == {i \in DOMAIN rope : rope[i] \in pieces}

Nth(positions, k) ==
  CHOOSE i \in positions : Cardinality({j \in positions : j < i}) = k - 1

ActivityLabel == "- **Activity**: "

MaintainedTexts ==
  {"Actively maintained (updated recently)", "May not be actively maintained"}

SummaryDownloaded ==
  /\ download # Null
  /\ download[1].type = "text/markdown"
  /\ download[1].name[1] = "github-repo-summary-"

(***************************************************************************)
(* C20.  In the narrative summary every selected record is classified by   *)
(* fixed thresholds: its activity level is 'high' when stars > 1000,       *)
(* 'medium' when 100 < stars <= 1000 and 'low' otherwise, and it is        *)
(* flagged as maintained exactly when the whole number of days since its   *)
(* last update is below 90.  The k-th section of the document is that of   *)
(* the k-th record of the selection as it was when the summary was asked.  *)
(***************************************************************************)
C20_SummaryClassifiesByThresholds ==
  [][generateRepoSummary =>
       \E doc \in {download'[1].content} :
         \E levels \in {Positions(doc, {ActivityLabel})} :
           \E flags \in {Positions(doc, MaintainedTexts)} :
             /\ Cardinality(levels) = Len(selectedRepos)
             /\ Cardinality(flags) = Len(selectedRepos)
             /\ \A k \in DOMAIN selectedRepos :
                  LET stars == selectedRepos[k].stargazers_count
                      hours == today * 24 - selectedRepos[k].updated_at
                  IN  /\ doc[Nth(levels, k) + 1] =
                           (IF stars > 1000 THEN "high"
                            ELSE IF 100 < stars /\ stars <= 1000 THEN "medium"
                            ELSE "low")
                      /\ doc[Nth(flags, k)] = "Actively maintained (updated recently)"
                           <=> \E days \in -1..89 :
                                 days * 24 <= hours /\ hours < (days + 1) * 24]_vars

\* A summary of two records has been downloaded: the first has 1000 stars
\* and was updated 90 days ago to the hour, the second has 1001 stars and
\* was updated 89 days and 23 hours ago.
C20_ThresholdRecordsSummarised ==
  /\ SummaryDownloaded
  /\ \E doc \in {download[1].content} :
       \E levels \in {Positions(doc, {ActivityLabel})} :
         \E flags \in {Positions(doc, MaintainedTexts)} :
           /\ Cardinality(levels) = 2
           /\ doc[Nth(levels, 1) + 1] = "medium"
           /\ doc[Nth(levels, 2) + 1] = "high"
           /\ doc[Nth(flags, 1)] = "May not be actively maintained"
           /\ doc[Nth(flags, 2)] = "Actively maintained (updated recently)"
  /\ {selectedRepos[i].id : i \in DOMAIN selectedRepos} = {1, 2}

(***************************************************************************)
(* C16.  The search filters and the free text are read, and a search       *)
(* request is issued, once per search submission: editing a filter or the  *)
(* search text while on the search tab does not by itself issue a network  *)
(* request.  In the code every such edit gives searchRepositories a new    *)
(* identity, which is a dependency of the fetch dispatch.                  *)
(***************************************************************************)
C16_EditingIssuesNoRequest ==
  [][(\/ \E key \in FilterKeys : \E value \in FilterOptions[key] :
           handleFilterChange(key, value)
      \/ \E text \in Texts : setSearchQuery(text))
       => inflight' = inflight]_vars

(***************************************************************************)
(* Vocabulary of the failure properties: what the user can do in a state,  *)
(* and whether it issues a request.                                        *)
(***************************************************************************)
\* The renders of one event, run in the rendered state ui with the
\* dependency values d, issue a request.
IssuesRequest(ui, d, renders) ==
  Len(runEffects(ui, d, renders).inflight) = Len(ui.inflight) + 1

\* Every change to another of the tabs that fetch issues a request.
TabChangeFetches(ui, d) ==
  \A tab \in FetchTabs \ {d.activeTab} :
    IssuesRequest(ui, d, handleTabChangeRenders(d, tab))

\* Pagination is rendered for the state ui.
PaginationShownIn(ui) == ~ui.loading /\ ui.repositories # <<>>

\* The Next button is there and issues a request.
NextPageFetches(ui, d) ==
  PaginationShownIn(ui) /\ IssuesRequest(ui, d, handleNextPageRenders(d))

\* The search form is there and its submission issues a request.
SearchSubmitFetches(ui, d) ==
  d.activeTab = "search" /\ IssuesRequest(ui, d, handleSearchRenders(d))

Fails(i, resp) == completeFetch(i, resp) /\ thrown(resp) # Null

C18_FetchedResultsNotRequestedAgain ==
  [][(/\ Issues
      /\ activeTab' \in {"trending", "recent"}
      /\ repositories # <<>>)
       => repositories # Catalogue(IssuedRequest)]_vars

\* The usage timer is started for an unauthenticated user and the prompt is
\* not shown yet.
TimerStarted ==
  ~isAuthenticated(user) /\ isSet(sessionStartTime) /\ ~showAuthPrompt

(***************************************************************************)
(* C19.  In AuthProvider, once the usage timer has been started for an     *)
(* unauthenticated user, and unless the user becomes authenticated or the  *)
(* timer is reset, showAuthPrompt eventually becomes true; it is set to    *)
(* true only while a start time is recorded and at least USAGE_TIME_LIMIT  *)
(* has elapsed since then, and whenever it is true a start time is         *)
(* recorded and the limit has elapsed.                                     *)
(***************************************************************************)
C19_PromptWhenLimitElapsed ==
  /\ [][(~showAuthPrompt /\ showAuthPrompt')
          => /\ isSet(sessionStartTime)
             /\ sessionStartTime' = sessionStartTime
             /\ clock' - sessionStartTime[1] >= USAGE_TIME_LIMIT]_vars
  /\ [](showAuthPrompt
          => /\ isSet(sessionStartTime)
             /\ clock - sessionStartTime[1] >= USAGE_TIME_LIMIT)
  /\ (TimerStarted ~> (showAuthPrompt \/ ~TimerStarted))

\* The prompt is shown to an unauthenticated user exactly when the limit
\* has elapsed since the start of the timer.
C19_PromptShownAtLimit ==
  /\ showAuthPrompt
  /\ ~isAuthenticated(user)
  /\ isSet(sessionStartTime)
  /\ clock - sessionStartTime[1] = USAGE_TIME_LIMIT
  /\ timer = Null

(***************************************************************************)
(* C21.  A clipboard write that fails leaves the copied indicator, the     *)
(* fetch error message and the result list unchanged; one that succeeds    *)
(* sets the indicator to the id the call was given and leaves the error    *)
(* message and the result list unchanged; an indicator that is set is      *)
(* eventually reset to null.                                               *)
(***************************************************************************)
C21_ClipboardFailureOnlyLogged ==
  /\ [][\A i \in DOMAIN clipboardWrites :
          /\ writeTextSettles(i, FALSE)
               => /\ copiedRepo' = copiedRepo
                  /\ error' = error
                  /\ repositories' = repositories
          /\ writeTextSettles(i, TRUE)
               => /\ copiedRepo' = Some(clipboardWrites[i])
                  /\ error' = error
                  /\ repositories' = repositories]_vars
  /\ (copiedRepo # Null ~> copiedRepo = Null)

\* The indicator of one button is shown, a fetch error message is shown, and
\* the write for the other button of the card has not settled yet.
C21_WritePendingWhileIndicatorShown ==
  /\ copiedRepo = Some("1-https")
  /\ clipboardWrites = <<"1-ssh">>
  /\ resetTimers = 1
  /\ error # Null
  /\ repositories # <<>>

(***************************************************************************)
(* C22, as claimed: in every state in which the active tab is bookmarks    *)
(* the result list is the list of the records of the bookmark list, also   *)
(* when the response to a request of the tab before arrives after the      *)
(* switch.  In the code the response is applied whatever the tab is.       *)
(***************************************************************************)
C22_BookmarksTabShowsBookmarks ==
  activeTab = "bookmarks" => repositories = bookmarkedRepos(bookmarks)

(***************************************************************************)
(* C23, as claimed: the loading flag is true in every state in which a     *)
(* request is outstanding and false when none is.  In the code every       *)
(* completion clears the flag, whatever else is in flight.                 *)
(***************************************************************************)
C23_LoadingWhileOutstanding ==
  loading <=> inflight # <<>>

(***************************************************************************)
(* C24, as claimed: after a request completes successfully and its items   *)
(* are applied the error message is null, for every interleaving of        *)
(* overlapping requests.  In the code the message is cleared only when a   *)
(* request is issued, so the failure of an earlier request in between      *)
(* stays on screen.                                                        *)
(***************************************************************************)
C24_SuccessLeavesNoError ==
  [][\A i \in 1..Len(inflight) : \A resp \in Responses(inflight[i]) :
       (completeFetch(i, resp) /\ thrown(resp) = Null) => error' = Null]_vars

\* The page after the renders of one event.
PageAfter(renders) == renders[Len(renders)].page

(***************************************************************************)
(* C25.  The page is at least 1 in every reachable state; handlePrevPage   *)
(* called at page 1 leaves the page as it is and otherwise takes 1 off;    *)
(* handleNextPage always adds exactly 1; handleTabChange and handleSearch  *)
(* leave the page at least 1.                                              *)
(***************************************************************************)
C25_PageAtLeastOne ==
  /\ [](page >= 1)
  /\ [](PageAfter(handlePrevPageRenders(CurrentDeps))
          = IF page = 1 THEN 1 ELSE page - 1)
  /\ [](PageAfter(handleNextPageRenders(CurrentDeps)) = page + 1)
  /\ [][/\ handlePrevPage => (page' = page - 1 /\ page' >= 1)
        /\ handleNextPage => page' = page + 1
        /\ (\E tab \in Tabs : handleTabChange(tab)) => page' = 1
        /\ handleSearch => page' >= 1]_vars

\* The user went to page 2 of the trending tab and back: the page is 1 again
\* while the list still holds the record of page 2, the request for page 1
\* having failed.
C25_BackOnFirstPage ==
  /\ activeTab = "trending"
  /\ page = 1
  /\ PaginationShown
  /\ repositories
       = Catalogue(Request(2, "created:>" \o getDateFromDaysAgo(TrendingDays, today),
                           "stars"))
  /\ error # Null

(***************************************************************************)
(* C26, as claimed: toggling a bookmark or a selection while the active    *)
(* tab is trending, recent or search issues no network request and leaves  *)
(* the result list, the loading flag, the error message, the page and the  *)
(* active tab unchanged.  In the code the bookmark list is a dependency of *)
(* the fetch dispatch.                                                     *)
(***************************************************************************)
C26_TogglesChangeOnlyTheirList ==
  [][(/\ activeTab \in FetchTabs
      /\ \E repo \in Clickable(repositories) :
           toggleBookmark(repo) \/ toggleRepoSelection(repo))
       => /\ inflight' = inflight
          /\ repositories' = repositories
          /\ loading' = loading
          /\ error' = error
          /\ page' = page
          /\ activeTab' = activeTab]_vars

\* The ids of the records of a selection, and whether no id is there twice.
SelectedIds(sel) == {sel[i].id : i \in DOMAIN sel}

NoIdTwice(ids) == \A i, j \in DOMAIN ids : ids[i] = ids[j] => i = j

BookmarkIdList(bm) == [i \in DOMAIN bm |-> bm[i].repository.id]

SelectionIdList(sel) == [i \in DOMAIN sel |-> sel[i].id]

(***************************************************************************)
(* C27.  After any sequence of toggleBookmark and toggleRepoSelection      *)
(* calls the bookmark list holds no two entries with the same repository   *)
(* id and the selection no two records with the same id; toggling a record *)
(* whose id is present leaves no entry with that id, also in a list that   *)
(* would hold the id more than once.                                       *)
(***************************************************************************)
C27_NoIdTwice ==
  /\ [](NoIdTwice(BookmarkIdList(bookmarks)))
  /\ [](NoIdTwice(SelectionIdList(selectedRepos)))
  /\ [](\A repo \in Clickable(repositories) :
          /\ IsBookmarkedIn(bookmarks, repo)
               => ~IsBookmarkedIn(toggledBookmarks(bookmarks \o bookmarks, repo), repo)
          /\ repo.id \in SelectedIds(selectedRepos)
               => repo.id \notin SelectedIds(toggledSelection(selectedRepos \o selectedRepos, repo)))
  /\ [][\A repo \in Clickable(repositories) :
          /\ (toggleBookmark(repo) /\ IsBookmarkedIn(bookmarks, repo))
               => ~IsBookmarkedIn(bookmarks', repo)
          /\ (toggleRepoSelection(repo) /\ repo.id \in SelectedIds(selectedRepos))
               => repo.id \notin SelectedIds(selectedRepos')]_vars

\* Two records are bookmarked, and the card that can be clicked is both
\* bookmarked and selected.
C27_ClickableBookmarkedAndSelected ==
  /\ Len(bookmarks) = 2
  /\ \E repo \in Clickable(repositories) :
       /\ IsBookmarkedIn(bookmarks, repo)
       /\ repo.id \in SelectedIds(selectedRepos)

(***************************************************************************)
(* C28, as claimed: in AuthProvider the auth prompt is never shown to an   *)
(* authenticated user, whichever way the user became set.  In the code     *)
(* only a SIGNED_IN event hides the prompt.                                *)
(***************************************************************************)
C28_NoPromptWhenAuthenticated ==
  isAuthenticated(user) => ~showAuthPrompt

(***************************************************************************)
(* C29, as claimed: whenever the page is greater than 1 and no request is  *)
(* loading the pagination controls are there, so the user can go back to a *)
(* lower page, also after paging past the last page to an empty result.    *)
(* In the code the controls are rendered only for a list that is not       *)
(* empty.                                                                  *)
(***************************************************************************)
C29_CanGoBackFromLaterPage ==
  (page > 1 /\ ~loading) => (PaginationShown /\ ENABLED handlePrevPage)

(***************************************************************************)
(* C30.  startUsageTimer records a start time only when the user is        *)
(* unauthenticated and no start time is set: a call with a start time      *)
(* recorded leaves it where it is, a call while authenticated changes      *)
(* nothing, and no call touches the user or the prompt.  resetUsageTimer   *)
(* and a SIGNED_IN event both clear the start time and hide the prompt.    *)
(***************************************************************************)
C30_StartGuardedResetClears ==
  /\ [][startUsageTimer
          => /\ (isSet(sessionStartTime)
                   => sessionStartTime' = sessionStartTime)
             /\ (isAuthenticated(user) => UNCHANGED vars)
             /\ ((~isAuthenticated(user) /\ ~isSet(sessionStartTime))
                   => sessionStartTime' = Some(clock))
             /\ UNCHANGED <<user, showAuthPrompt>>]_vars
  /\ [][resetUsageTimer
          => /\ sessionStartTime' = Null
             /\ ~showAuthPrompt'
             /\ timer' = Null]_vars
  /\ [][(\E u \in Users : onAuthStateChange("SIGNED_IN", Some(u)))
          => /\ sessionStartTime' = Null
             /\ ~showAuthPrompt'
             /\ isAuthenticated(user')
             /\ timer' = Null]_vars

\* The timer was started at an earlier minute and startUsageTimer can be
\* called again.
C30_SecondCallPossible ==
  /\ ~isAuthenticated(user)
  /\ isSet(sessionStartTime)
  /\ sessionStartTime[1] < clock
  /\ clock + USAGE_TIME_LIMIT <= MaxClock
  /\ timer # Null
  /\ timer[1].start = sessionStartTime[1]

====
